---- MODULE Spec2Model ----
(***************************************************************************)
(* Model of the documentation-generation orchestration layer:              *)
(*   core/docgen.py            generate_all_documentation (sequential)     *)
(*   core/concurrent_docgen.py generate_all_documentation_batch,           *)
(*                             generate_all_documentation_concurrent,      *)
(*                             generate_file_documentation_worker          *)
(*   utils/api.py              generate_documentation                      *)
(* A text is a sequence of string tokens (an f-string is the sequence of   *)
(* its pieces); a progress ratio is a pair <<numerator, denominator>>.     *)
(***************************************************************************)
EXTENDS Integers, Sequences, FiniteSets, TLC

\* ---------------------------------------------------------------- bounds
MaxFiles == 3
MaxParam == 3
MaxClock == 1
MaxDays == 1
MaxDocs == 2

\* ------------------------------------------------------ program constants
MIN_BATCH_SIZE == 2
MIN_FULL_CONCURRENCY_THREADS == 2

\* Paths of the extracted files, in the order of the files dictionary.
AllPaths == <<"a.py", "b.py", "__init__.py", "d.py", "e.py", "f.py", "g.py", "h.py">>

DIRECTORY_STRUCTURE == "__directory_structure__"
MERMAID_DIAGRAM == "__mermaid_diagram__"
PROJECT_OVERVIEW == "__project_overview__"

Methods == {"Sequential", "Batch Processing", "Full Concurrent"}

\* Outcome of the remote call client.messages.create for one file.
Outcomes == {"returns", "raises"}

\* ------------------------------------------------------------- pure code
Range(s) == {s[n] : n \in 1..Len(s)}

\* Text the backend returns for a file, and the message of the exception
\* it raises for a file.
ResponseText(file_path) == <<"doc:", file_path>>
ExceptionMessage(file_path) == <<"boom:", file_path>>

\* The value of a call: either a returned value or a propagating exception.
Returned(v) == [raised |-> FALSE, value |-> v]
Raised(msg) == [raised |-> TRUE, value |-> msg]

\* api.py generate_documentation: the remote call sits in try/except and an
\* exception is turned into the returned text.
generate_documentation_propagates(file_path, oc) ==
    IF oc = "returns"
    THEN Returned(ResponseText(file_path))
    ELSE Raised(ExceptionMessage(file_path))

generate_documentation_drops_message(file_path, oc) ==
    IF oc = "returns"
    THEN Returned(ResponseText(file_path))
    ELSE Returned(<<"Error generating documentation: ">>)

generate_documentation(file_path, oc) ==
    IF oc = "returns"
    THEN Returned(ResponseText(file_path))
    ELSE Returned(<<"Error generating documentation: ">> \o ExceptionMessage(file_path))

\* concurrent_docgen.py generate_file_documentation_worker: a 4-tuple
\* (file_path, documentation, success, error).
generate_file_documentation_worker(file_path, oc) ==
    LET r == generate_documentation(file_path, oc)
    IN  IF r.raised
        THEN Returned(<<file_path, <<"Error generating documentation: ">> \o r.value,
                        FALSE, r.value>>)
        ELSE Returned(<<file_path, r.value, TRUE, <<>>>>)

\* A progress ratio: st.progress(0), st.progress(1.0), count / total_files.
Ratio(n, d) == <<n, d>>
RatioLeq(a, b) == a[1] * b[2] <= b[1] * a[2]
IsOne(a) == a[1] = a[2]

\* documentation[key] = text
Put(doc, key, text) == [k \in DOMAIN doc \cup {key} |-> IF k = key THEN text ELSE doc[k]]

\* concurrent_docgen.py 166-176: the body of the as_completed loop of the
\* full-concurrent executor.  The worker's tuple is unpacked into three
\* names; a tuple of another length raises ValueError inside the try and the
\* except branch stores the message and reports a failure.
UnpackError == "too many values to unpack (expected 3)"

ConcurrentEntry(file_path, fut) ==
    IF ~fut.raised /\ Len(fut.value) = 3
    THEN [key |-> fut.value[1], text |-> fut.value[2], success |-> fut.value[3]]
    ELSE [key |-> file_path,
          text |-> <<"Error processing ", file_path, ": ">>
                     \o (IF fut.raised THEN fut.value ELSE <<UnpackError>>),
          success |-> FALSE]

\* concurrent_docgen.py 276-292: the body of the as_completed loop of the
\* batch executor.
BatchEntry(file_path, fut) ==
    IF fut.raised
    THEN [key |-> file_path,
          text |-> <<"Error: ", "Worker exception: ">> \o fut.value,
          success |-> FALSE]
    ELSE IF fut.value[3]
         THEN [key |-> fut.value[1], text |-> fut.value[2], success |-> TRUE]
         ELSE [key |-> fut.value[1], text |-> <<"Error: ">> \o fut.value[4],
               success |-> FALSE]

\* concurrent_docgen.py 254: file_items[i : i + batch_size], i zero-based.
BatchSlice_SkipsFirst(items, i, size) ==
    SubSeq(items, i + 2, IF i + size < Len(items) THEN i + size ELSE Len(items))

BatchSlice_Overlaps(items, i, size) ==
    SubSeq(items, i + 1, IF i + size + 1 < Len(items) THEN i + size + 1 ELSE Len(items))

BatchSlice(items, i, size) ==
    SubSeq(items, i + 1, IF i + size < Len(items) THEN i + size ELSE Len(items))

\* concurrent_docgen.py 265 and 150: the number of threads of the pool.
Min(a, b) == IF a < b THEN a ELSE b
BatchPoolSize_One(size, batch) == 1
BatchPoolSize(size, batch) == Min(size, Len(batch))
ConcurrentPoolSize_OneMore(workers) == workers + 1
ConcurrentPoolSize(workers) == workers

\* ------------------------------------------------------------------ state
VARIABLES
    file_items,       \* list(files.items()): the paths in input order
    config,           \* the configuration dictionary
    outcome, api_calls, failure,          \* outcome of the remote call of each file
    pc,               \* position of the orchestrator
    client,           \* "none" | "ready" | "failed"
    documentation,    \* the aggregate mapping key -> text
    result,           \* "pending" | "mapping" | "None" | "exception"
    unit,             \* per file: "idle","queued","running","finished","collected"
    future,           \* per file: the value of its finished call
    pool,             \* number of threads of the live pool, 0 when none
    calls,            \* collaborators invoked so far
    progress_queue,   \* queue.Queue of (file_path, success)
    completed_files,  \* list kept by the progress thread
    progress_thread,  \* "unstarted" | "check" | "drain" | "done"
    progress_bar,     \* ratios written to the progress indicator, in order
    completed_count,  \* counter of the batch executor
    batch,            \* the current batch (sequential: the current file)
    batch_results,    \* (file_path, success) of the current batch
    batch_status,     \* <<successful, len(batch)>> of the last finished batch
    index,            \* i of the batch loop / of the sequential loop
    file_docs,        \* the entries the content-based overview was built from
    executor,         \* the function the generation step handed the run to
    documentation_history,  \* st.session_state.documentation_history
    clock,            \* datetime.now(), in seconds
    demo_usage,       \* st.session_state.demo_usage
    today,            \* the day get_daily_key reads from the clock
    demo_gate,        \* the last answer of check_demo_limits, until it is used
    uploaded_file,    \* the archive handed to extract_files_from_archive
    archive_pc,       \* the position of the extraction
    temp_dir,         \* the directory tempfile.mkdtemp made, on disk or not
    file_doc_lengths, \* len(doc) of each entry of file_docs
    force_content_overview,  \* st.session_state.force_content_overview
    overview_strategy \* the strategy generate_content_based_overview took

docgen_vars == <<file_items, config, outcome, api_calls, failure, pc, client, documentation, result, unit,
          future, pool, calls, progress_queue, completed_files, progress_thread,
          progress_bar, completed_count, batch, batch_results, batch_status, index, file_docs, executor>>

\* The state of the session outside a generation run.
history_vars == <<documentation_history, clock>>
demo_vars == <<demo_usage, today, demo_gate>>
archive_vars == <<uploaded_file, archive_pc, temp_dir>>
overview_vars == <<file_doc_lengths, force_content_overview, overview_strategy>>
session_vars == <<history_vars, demo_vars, archive_vars, overview_vars>>

vars == <<docgen_vars, session_vars>>

total_files == Len(file_items)
Files == Range(file_items)
InFlight == {p \in Files : unit[p] = "running"}

\* ---- documentation history, documentation_history.py 15-112
MAX_HISTORY == 10

\* The session before anything was saved.
HistoryIdle ==
    /\ documentation_history = <<>>
    /\ clock = 0

\* ---- demo mode, demo.py 15-232
\* DEMO_CONFIG 15-34
MB == 1024 * 1024
DEMO_CONFIG ==
    [daily_limits |-> [max_files |-> 20, max_archives |-> 3,
                       max_file_size_mb |-> 20, max_total_size_mb |-> 60],
     session_limits |-> [max_files |-> 20, max_archives |-> 3]]

\* 46-57: the usage a new session starts with.
NewUsage(day) ==
    [is_demo_mode |-> FALSE, session_files |-> 0, session_archives |-> 0,
     session_size |-> 0, daily_key |-> day, daily_files |-> 0,
     daily_archives |-> 0, daily_size |-> 0]

\* No answer of check_demo_limits is waiting to be used.
NoGate == [operation |-> "none", file_count |-> 0, total_size |-> 0, allowed |-> FALSE]

DemoIdle ==
    /\ today = 0
    /\ demo_usage = NewUsage(0)
    /\ demo_gate = NoGate

\* ---- archive extraction, archive.py 19-189
\* No archive was handed over.
ArchiveIdle ==
    /\ uploaded_file = [name |-> "none"]
    /\ archive_pc = "idle"
    /\ temp_dir = "none"

\* ---- strategy of the content-based overview, api.py 307-326
OverviewIdle ==
    /\ file_doc_lengths = <<>>
    /\ force_content_overview = "unset"
    /\ overview_strategy = "none"

SessionIdle == HistoryIdle /\ DemoIdle /\ ArchiveIdle /\ OverviewIdle

Configs ==
    [concurrency_method : Methods,
     generate_overview : BOOLEAN,
     generate_dir_structure : BOOLEAN,
     batch_size : MIN_BATCH_SIZE..MaxParam,
     max_workers : MIN_FULL_CONCURRENCY_THREADS..MaxParam]

\* One run: any file list, any configuration, any outcome of each call.
\* The two concurrency parameters are drawn together since a run reads one.
Init ==
    /\ \E n \in 0..MaxFiles : file_items = SubSeq(AllPaths, 1, n)
    /\ config \in {c \in Configs : c.batch_size = c.max_workers}
    /\ outcome \in [Range(file_items) -> Outcomes]
    /\ api_calls = [p \in Range(file_items) |-> 0]
    /\ failure = "none"
    /\ pc = "main"
    /\ client = "none"
    /\ documentation = <<>>
    /\ result = "pending"
    /\ unit = [p \in Range(file_items) |-> "idle"]
    /\ future = [p \in Range(file_items) |-> Returned(<<>>)]
    /\ pool = 0
    /\ calls = {}
    /\ progress_queue = <<>>
    /\ completed_files = <<>>
    /\ progress_thread = "unstarted"
    /\ progress_bar = <<>>
    /\ completed_count = 0
    /\ batch = <<>>
    /\ batch_results = <<>>
    /\ batch_status = <<0, 0>>
    /\ index = 0
    /\ file_docs = <<>>
    /\ executor = "none"
    /\ SessionIdle

\* --------------------------------------------------------------- actions
\* api.py 308-310: the entries whose key does not start with two underscores.
StartsWith(s, prefix) ==
    Len(s) >= Len(prefix) /\ SubSeq(s, 1, Len(prefix)) = prefix

FileDocs(doc) == [k \in {p \in DOMAIN doc : ~StartsWith(p, "__")} |-> doc[k]]

\* api.py 312-313
NoFileDocumentation == <<"No file documentation available for overview generation.">>

\* Outcomes of an overview call.  generate_project_overview (sequential) has
\* its remote call in try/except and nothing that raises before it.
\* generate_content_based_overview reads st.session_state.force_content_overview
\* (api.py 318) and organizes the documents before the try block of its
\* remote call; an exception there leaves the function.
OverviewOutcomes(method) ==
    IF method = "Sequential"
    THEN {"returns", "raises"}
    ELSE {"returns", "raises", "fails_before_call"}

\* Text of the overview sentinel: the collaborator catches the exception of
\* its remote call and returns an error text.
OverviewText(method, oc) ==
    IF oc = "returns"
    THEN <<"overview">>
    ELSE IF method = "Sequential"
         THEN <<"Error generating project overview: ", "boom">>
         ELSE <<"Error generating content-based overview: ", "boom">>

\* app_concurrent.py 99-118: the function the generation step calls for a
\* configured method.
Dispatch_BatchByDefault(method) ==
    IF method = "Full Concurrent"
    THEN "generate_all_documentation_concurrent_fixed"
    ELSE "generate_all_documentation_batch"

Dispatch(method) ==
    IF method = "Batch Processing"
    THEN "generate_all_documentation_batch"
    ELSE IF method = "Full Concurrent"
         THEN "generate_all_documentation_concurrent_fixed"
         ELSE "generate_all_documentation"

\* The execution strategy of each function the dispatch names.
Executors ==
    {"generate_all_documentation", "generate_all_documentation_batch",
     "generate_all_documentation_concurrent_fixed"}

StrategyOf(name) ==
    CASE name = "generate_all_documentation_batch" -> "Batch Processing"
      [] name = "generate_all_documentation_concurrent_fixed" -> "Full Concurrent"
      [] OTHER -> "Sequential"

\* The strategy of the executor the run was handed to.
Strategy == StrategyOf(executor)

\* app_concurrent.py 99-114: the generation step hands the run to one executor.
Main ==
    /\ pc = "main"
    /\ executor' = Dispatch(config.concurrency_method)
    /\ pc' = "start"
    /\ UNCHANGED <<session_vars, file_docs, file_items, config, outcome, api_calls, failure, client,
                   documentation, result, unit, future, pool, calls, progress_queue,
                   completed_files, progress_thread, progress_bar, completed_count,
                   batch, batch_results, batch_status, index>>

\* docgen.py 55-59, concurrent_docgen.py 82-86 and 221-227.
InitializeClient_NoReturn ==
    /\ pc = "start"
    /\ \E ok \in BOOLEAN : client' = IF ok THEN "ready" ELSE "failed"
    /\ pc' = "viz"
    /\ UNCHANGED <<session_vars, executor, file_docs, file_items, config, outcome, api_calls, failure, documentation, result, unit, future,
                   pool, calls, progress_queue, completed_files, progress_thread,
                   progress_bar, completed_count, batch, batch_results,
                   batch_status, index>>

InitializeClient ==
    /\ pc = "start"
    /\ \E ok \in BOOLEAN :
         IF ok
         THEN /\ client' = "ready"
              /\ pc' = "viz"
              /\ result' = result
              /\ failure' = failure
         ELSE /\ client' = "failed"
              /\ pc' = "returned"
              /\ result' = "None"
              /\ failure' = "initialize_client"
    /\ UNCHANGED <<session_vars, executor, file_docs, file_items, config, outcome, api_calls, documentation, unit, future, pool,
                   calls, progress_queue, completed_files, progress_thread,
                   progress_bar, completed_count, batch, batch_results,
                   batch_status, index>>

\* docgen.py 62-76, concurrent_docgen.py 89-103 and 230-243, followed by the
\* set-up of the progress indicator (107, 248) where the executor has one.
DirectoryViz_SingleFile ==
    /\ pc = "viz"
    /\ IF config.generate_dir_structure /\ total_files >= 1
       THEN /\ documentation' = Put(Put(documentation, DIRECTORY_STRUCTURE, <<"ascii_tree">>),
                                    MERMAID_DIAGRAM, <<"mermaid", "mermaid_code">>)
            /\ calls' = calls \cup {"build_directory_tree"}
       ELSE UNCHANGED <<documentation, calls>>
    /\ pc' = CASE Strategy = "Sequential" -> "pre_overview"
               [] Strategy = "Batch Processing" -> "batch_loop"
               [] OTHER -> "progress_setup"
    /\ progress_bar' = IF Strategy = "Sequential"
                       THEN progress_bar
                       ELSE Append(progress_bar, Ratio(0, 1))
    /\ UNCHANGED <<session_vars, executor, file_docs, file_items, config, outcome, api_calls, failure, client, result, unit, future, pool,
                   progress_queue, completed_files, progress_thread,
                   completed_count, batch, batch_results, batch_status, index>>

DirectoryViz ==
    /\ pc = "viz"
    /\ IF config.generate_dir_structure /\ total_files > 1
       THEN /\ documentation' = Put(Put(documentation, DIRECTORY_STRUCTURE, <<"ascii_tree">>),
                                    MERMAID_DIAGRAM, <<"mermaid", "mermaid_code">>)
            /\ calls' = calls \cup {"build_directory_tree"}
       ELSE UNCHANGED <<documentation, calls>>
    /\ pc' = CASE Strategy = "Sequential" -> "pre_overview"
               [] Strategy = "Batch Processing" -> "batch_loop"
               [] OTHER -> "progress_setup"
    /\ progress_bar' = IF Strategy = "Sequential"
                       THEN progress_bar
                       ELSE Append(progress_bar, Ratio(0, 1))
    /\ UNCHANGED <<session_vars, executor, file_docs, file_items, config, outcome, api_calls, failure, client, result, unit, future, pool,
                   progress_queue, completed_files, progress_thread,
                   completed_count, batch, batch_results, batch_status, index>>

\* ---- sequential executor, docgen.py 78-94
SeqOverview ==
    /\ pc = "pre_overview"
    /\ IF config.generate_overview /\ total_files > 1
       THEN \E oc \in OverviewOutcomes("Sequential") :
              /\ documentation' = Put(documentation, PROJECT_OVERVIEW,
                                      OverviewText("Sequential", oc))
              /\ calls' = calls \cup {"generate_project_overview"}
       ELSE UNCHANGED <<documentation, calls>>
    /\ pc' = "seq_loop"
    /\ UNCHANGED <<session_vars, executor, file_docs, file_items, config, outcome, api_calls, failure, client, result, unit, future, pool,
                   progress_queue, completed_files, progress_thread, progress_bar,
                   completed_count, batch, batch_results, batch_status, index>>

\* docgen.py 85-87: the loop takes the next file and enters the call.
SeqCall ==
    /\ pc = "seq_loop"
    /\ index < total_files
    /\ unit' = [unit EXCEPT ![file_items[index + 1]] = "running"]
    /\ batch' = <<file_items[index + 1]>>
    /\ api_calls' = [api_calls EXCEPT ![file_items[index + 1]] = @ + 1]
    /\ pc' = "seq_call"
    /\ UNCHANGED <<session_vars, executor, file_docs, file_items, config, outcome, failure, client, documentation, result, future,
                   pool, calls, progress_queue, completed_files, progress_thread,
                   progress_bar, completed_count, batch_results, batch_status, index>>

\* The loop steps over the file that follows a stored one.
SeqStore_SkipsNext ==
    /\ pc = "seq_call"
    /\ outcome[file_items[index + 1]] # "hangs"
    /\ LET file_path == file_items[index + 1]
           r == generate_documentation(file_path, outcome[file_path])
       IN  /\ future' = [future EXCEPT ![file_path] = r]
           /\ IF r.raised
              THEN /\ unit' = [unit EXCEPT ![file_path] = "finished"]
                   /\ pc' = "returned"
                   /\ result' = "exception"
                   /\ failure' = "generate_documentation"
                   /\ UNCHANGED <<documentation, index>>
              ELSE /\ unit' = [unit EXCEPT ![file_path] = "collected"]
                   /\ documentation' = Put(documentation, file_path, r.value)
                   /\ index' = index + 2
                   /\ pc' = "seq_loop"
                   /\ result' = result
                   /\ failure' = failure
    /\ UNCHANGED <<session_vars, executor, file_docs, file_items, config, outcome, api_calls, client, pool, calls, progress_queue,
                   completed_files, progress_thread, progress_bar, completed_count,
                   batch, batch_results, batch_status>>

\* docgen.py 87-89: the call ends and its value is stored; an exception of
\* the call leaves the function, which has no handler around the loop.
SeqStore ==
    /\ pc = "seq_call"
    /\ outcome[file_items[index + 1]] # "hangs"
    /\ LET file_path == file_items[index + 1]
           r == generate_documentation(file_path, outcome[file_path])
       IN  /\ future' = [future EXCEPT ![file_path] = r]
           /\ IF r.raised
              THEN /\ unit' = [unit EXCEPT ![file_path] = "finished"]
                   /\ pc' = "returned"
                   /\ result' = "exception"
                   /\ failure' = "generate_documentation"
                   /\ UNCHANGED <<documentation, index>>
              ELSE /\ unit' = [unit EXCEPT ![file_path] = "collected"]
                   /\ documentation' = Put(documentation, file_path, r.value)
                   /\ index' = index + 1
                   /\ pc' = "seq_loop"
                   /\ result' = result
                   /\ failure' = failure
    /\ UNCHANGED <<session_vars, executor, file_docs, file_items, config, outcome, api_calls, client, pool, calls, progress_queue,
                   completed_files, progress_thread, progress_bar, completed_count,
                   batch, batch_results, batch_status>>

\* docgen.py 92-94
SeqReturn ==
    /\ pc = "seq_loop"
    /\ index >= total_files
    /\ pc' = "returned"
    /\ result' = "mapping"
    /\ UNCHANGED <<session_vars, executor, file_docs, file_items, config, outcome, api_calls, failure, client, documentation, unit, future,
                   pool, calls, progress_queue, completed_files, progress_thread,
                   progress_bar, completed_count, batch, batch_results, batch_status,
                   index>>

\* ---- worker threads of a ThreadPoolExecutor (both pooled executors)
\* A thread of the pool takes a queued call; the pool has `pool` threads.
WorkerStart(p) ==
    /\ unit[p] = "queued"
    /\ Cardinality(InFlight) < pool
    /\ unit' = [unit EXCEPT ![p] = "running"]
    /\ api_calls' = [api_calls EXCEPT ![p] = @ + 1]
    /\ UNCHANGED <<session_vars, executor, file_docs, file_items, config, outcome, failure, pc, client, documentation, result,
                   future, pool, calls, progress_queue, completed_files,
                   progress_thread, progress_bar, completed_count, batch,
                   batch_results, batch_status, index>>

\* A worker that never ends a call which raises.
WorkerFinish_RetriesOnError(p) ==
    /\ unit[p] = "running"
    /\ outcome[p] = "returns"
    /\ config.concurrency_method # "Sequential"
    /\ unit' = [unit EXCEPT ![p] = "finished"]
    /\ future' = [future EXCEPT ![p] = generate_file_documentation_worker(p, outcome[p])]
    /\ UNCHANGED <<session_vars, executor, file_docs, file_items, config, outcome, api_calls, failure, pc, client, documentation, result,
                   pool, calls, progress_queue, completed_files, progress_thread,
                   progress_bar, completed_count, batch, batch_results, batch_status,
                   index>>

\* concurrent_docgen.py 46-63: the call of the worker ends, its future is done.
WorkerFinish(p) ==
    /\ unit[p] = "running"
    /\ outcome[p] # "hangs"
    /\ config.concurrency_method # "Sequential"
    /\ unit' = [unit EXCEPT ![p] = "finished"]
    /\ future' = [future EXCEPT ![p] = generate_file_documentation_worker(p, outcome[p])]
    /\ UNCHANGED <<session_vars, executor, file_docs, file_items, config, outcome, api_calls, failure, pc, client, documentation, result,
                   pool, calls, progress_queue, completed_files, progress_thread,
                   progress_bar, completed_count, batch, batch_results, batch_status,
                   index>>

\* ---- batch executor, concurrent_docgen.py 245-321
\* 253-272: the next batch is cut, its pool is built and every file of the
\* batch is submitted; an exception of the pool leaves the function.
BatchBegin_ReturnsPartial ==
    /\ pc = "batch_loop"
    /\ index < total_files
    /\ LET b == BatchSlice(file_items, index, config.batch_size)
       IN  /\ batch' = b
           /\ batch_results' = <<>>
           /\ \E ok \in BOOLEAN :
                IF ok
                THEN /\ pool' = BatchPoolSize(config.batch_size, b)
                     /\ unit' = [p \in Files |-> IF p \in Range(b) THEN "queued" ELSE unit[p]]
                     /\ calls' = calls \cup {"ThreadPoolExecutor"}
                     /\ pc' = "batch_collect"
                     /\ result' = result
                     /\ failure' = failure
                ELSE /\ pc' = "returned"
                     /\ result' = "mapping"
                     /\ failure' = "ThreadPoolExecutor"
                     /\ UNCHANGED <<pool, unit, calls>>
    /\ UNCHANGED <<session_vars, executor, file_docs, file_items, config, outcome, api_calls, client, documentation, future,
                   progress_queue, completed_files, progress_thread, progress_bar,
                   completed_count, batch_status, index>>

BatchBegin ==
    /\ pc = "batch_loop"
    /\ index < total_files
    /\ LET b == BatchSlice(file_items, index, config.batch_size)
       IN  /\ batch' = b
           /\ batch_results' = <<>>
           /\ \E ok \in BOOLEAN :
                IF ok
                THEN /\ pool' = BatchPoolSize(config.batch_size, b)
                     /\ unit' = [p \in Files |-> IF p \in Range(b) THEN "queued" ELSE unit[p]]
                     /\ calls' = calls \cup {"ThreadPoolExecutor"}
                     /\ pc' = "batch_collect"
                     /\ result' = result
                     /\ failure' = failure
                ELSE /\ pc' = "returned"
                     /\ result' = "exception"
                     /\ failure' = "ThreadPoolExecutor"
                     /\ UNCHANGED <<pool, unit, calls>>
    /\ UNCHANGED <<session_vars, executor, file_docs, file_items, config, outcome, api_calls, client, documentation, future,
                   progress_queue, completed_files, progress_thread, progress_bar,
                   completed_count, batch_status, index>>

\* The result is stored under the path of the first file of the batch.
BatchCollect_StaleKey(p) ==
    /\ pc = "batch_collect"
    /\ unit[p] = "finished"
    /\ LET e == BatchEntry(p, future[p])
       IN  /\ documentation' = Put(documentation, batch[1], e.text)
           /\ batch_results' = Append(batch_results, <<e.key, e.success>>)
    /\ completed_count' = completed_count + 1
    /\ unit' = [unit EXCEPT ![p] = "collected"]
    /\ UNCHANGED <<session_vars, executor, file_docs, file_items, config, outcome, api_calls, failure, pc, client, result, future, pool,
                   calls, progress_queue, completed_files, progress_thread,
                   progress_bar, batch, batch_status, index>>

\* 274-292: as_completed hands over one finished future of the batch.
BatchCollect(p) ==
    /\ pc = "batch_collect"
    /\ unit[p] = "finished"
    /\ LET e == BatchEntry(p, future[p])
       IN  /\ documentation' = Put(documentation, e.key, e.text)
           /\ batch_results' = Append(batch_results, <<e.key, e.success>>)
    /\ completed_count' = completed_count + 1
    /\ unit' = [unit EXCEPT ![p] = "collected"]
    /\ UNCHANGED <<session_vars, executor, file_docs, file_items, config, outcome, api_calls, failure, pc, client, result, future, pool,
                   calls, progress_queue, completed_files, progress_thread,
                   progress_bar, batch, batch_status, index>>

\* 265 (end of the with block) and 294-302: the pool is shut down once every
\* future of the batch is done, then the progress of the batch is written.
BatchEnd_AfterFirstResult ==
    /\ pc = "batch_collect"
    /\ \E p \in Range(batch) : unit[p] = "collected"
    /\ pool' = 0
    /\ progress_bar' = Append(progress_bar, Ratio(completed_count, total_files))
    /\ batch_status' = <<Cardinality({n \in 1..Len(batch_results) : batch_results[n][2]}),
                         Len(batch)>>
    /\ index' = index + config.batch_size
    /\ pc' = "batch_loop"
    /\ UNCHANGED <<session_vars, executor, file_docs, file_items, config, outcome, api_calls, failure, client, documentation, result, unit,
                   future, calls, progress_queue, completed_files, progress_thread,
                   completed_count, batch, batch_results>>

BatchEnd ==
    /\ pc = "batch_collect"
    /\ \A p \in Range(batch) : unit[p] = "collected"
    /\ pool' = 0
    /\ progress_bar' = Append(progress_bar, Ratio(completed_count, total_files))
    /\ batch_status' = <<Cardinality({n \in 1..Len(batch_results) : batch_results[n][2]}),
                         Len(batch)>>
    /\ index' = index + config.batch_size
    /\ pc' = "batch_loop"
    /\ UNCHANGED <<session_vars, executor, file_docs, file_items, config, outcome, api_calls, failure, client, documentation, result, unit,
                   future, calls, progress_queue, completed_files, progress_thread,
                   completed_count, batch, batch_results>>

\* 304-309
BatchOverview ==
    /\ pc = "batch_loop"
    /\ index >= total_files
    /\ IF config.generate_overview /\ total_files > 1
       THEN LET docs == FileDocs(documentation)
            IN  /\ file_docs' = docs
                /\ calls' = calls \cup {"generate_content_based_overview"}
                /\ IF DOMAIN docs = {}
                   THEN /\ documentation' = Put(documentation, PROJECT_OVERVIEW,
                                                NoFileDocumentation)
                        /\ pc' = "batch_final"
                        /\ UNCHANGED <<result, failure>>
                   ELSE \E oc \in OverviewOutcomes("Batch Processing") :
                          IF oc = "fails_before_call"
                          THEN /\ pc' = "returned"
                               /\ result' = "exception"
                               /\ failure' = "generate_content_based_overview"
                               /\ UNCHANGED documentation
                          ELSE /\ documentation' = Put(documentation, PROJECT_OVERVIEW,
                                                       OverviewText("Batch Processing", oc))
                               /\ pc' = "batch_final"
                               /\ UNCHANGED <<result, failure>>
       ELSE /\ pc' = "batch_final"
            /\ UNCHANGED <<documentation, calls, result, failure, file_docs>>
    /\ UNCHANGED <<session_vars, executor, file_items, config, outcome, api_calls, client, unit, future, pool,
                   progress_queue, completed_files, progress_thread, progress_bar,
                   completed_count, batch, batch_results, batch_status, index>>

\* 311-321
BatchReturn ==
    /\ pc = "batch_final"
    /\ progress_bar' = Append(progress_bar, Ratio(1, 1))
    /\ pc' = "returned"
    /\ result' = "mapping"
    /\ UNCHANGED <<session_vars, executor, file_docs, file_items, config, outcome, api_calls, failure, client, documentation, unit, future,
                   pool, calls, progress_queue, completed_files, progress_thread,
                   completed_count, batch, batch_results, batch_status, index>>

\* ---- full-concurrent executor, concurrent_docgen.py 105-202
\* 144-146
StartProgressThread ==
    /\ pc = "progress_setup"
    /\ progress_thread' = "check"
    /\ calls' = calls \cup {"progress_thread"}
    /\ pc' = "pool"
    /\ UNCHANGED <<session_vars, executor, file_docs, file_items, config, outcome, api_calls, failure, client, documentation, result, unit,
                   future, pool, progress_queue, completed_files, progress_bar,
                   completed_count, batch, batch_results, batch_status, index>>

\* 148-161 and 178-180: the pool is built and every file is submitted; an
\* exception of the pool is caught by the outer handler, which returns None.
ConcurrentSubmit ==
    /\ pc = "pool"
    /\ \E ok \in BOOLEAN :
         IF ok
         THEN /\ pool' = ConcurrentPoolSize(config.max_workers)
              /\ unit' = [p \in Files |-> "queued"]
              /\ batch' = file_items
              /\ calls' = calls \cup {"ThreadPoolExecutor"}
              /\ pc' = "collect"
              /\ result' = result
              /\ failure' = failure
         ELSE /\ pc' = "returned"
              /\ result' = "None"
              /\ failure' = "ThreadPoolExecutor"
              /\ UNCHANGED <<pool, unit, batch, calls>>
    /\ UNCHANGED <<session_vars, executor, file_docs, file_items, config, outcome, api_calls, client, documentation, future,
                   progress_queue, completed_files, progress_thread, progress_bar,
                   completed_count, batch_results, batch_status, index>>

\* 164-176: as_completed hands over one finished future.
ConcurrentCollect_PutsTwice(p) ==
    /\ pc = "collect"
    /\ unit[p] = "finished"
    /\ LET e == ConcurrentEntry(p, future[p])
       IN  /\ documentation' = Put(documentation, e.key, e.text)
           /\ progress_queue' = IF e.success
                                THEN Append(progress_queue, <<e.key, e.success>>)
                                ELSE progress_queue \o <<<<e.key, TRUE>>, <<e.key, FALSE>>>>
    /\ unit' = [unit EXCEPT ![p] = "collected"]
    /\ UNCHANGED <<session_vars, executor, file_docs, file_items, config, outcome, api_calls, failure, pc, client, result, future, pool,
                   calls, completed_files, progress_thread, progress_bar,
                   completed_count, batch, batch_results, batch_status, index>>

ConcurrentCollect(p) ==
    /\ pc = "collect"
    /\ unit[p] = "finished"
    /\ LET e == ConcurrentEntry(p, future[p])
       IN  /\ documentation' = Put(documentation, e.key, e.text)
           /\ progress_queue' = Append(progress_queue, <<e.key, e.success>>)
    /\ unit' = [unit EXCEPT ![p] = "collected"]
    /\ UNCHANGED <<session_vars, executor, file_docs, file_items, config, outcome, api_calls, failure, pc, client, result, future, pool,
                   calls, completed_files, progress_thread, progress_bar,
                   completed_count, batch, batch_results, batch_status, index>>

\* 150 (end of the with block): every future is done, the pool is shut down.
ConcurrentPoolExit_NoWait ==
    /\ pc = "collect"
    /\ pool' = 0
    /\ pc' = "post_overview"
    /\ UNCHANGED <<session_vars, executor, file_docs, file_items, config, outcome, api_calls, failure, client, documentation, result, unit,
                   future, calls, progress_queue, completed_files, progress_thread,
                   progress_bar, completed_count, batch, batch_results, batch_status,
                   index>>

ConcurrentPoolExit ==
    /\ pc = "collect"
    /\ \A p \in Files : unit[p] = "collected"
    /\ pool' = 0
    /\ pc' = "post_overview"
    /\ UNCHANGED <<session_vars, executor, file_docs, file_items, config, outcome, api_calls, failure, client, documentation, result, unit,
                   future, calls, progress_queue, completed_files, progress_thread,
                   progress_bar, completed_count, batch, batch_results, batch_status,
                   index>>

\* 182-187
ConcurrentOverview ==
    /\ pc = "post_overview"
    /\ IF config.generate_overview /\ total_files > 1
       THEN LET docs == FileDocs(documentation)
            IN  /\ file_docs' = docs
                /\ calls' = calls \cup {"generate_content_based_overview"}
                /\ IF DOMAIN docs = {}
                   THEN /\ documentation' = Put(documentation, PROJECT_OVERVIEW,
                                                NoFileDocumentation)
                        /\ pc' = "join"
                        /\ UNCHANGED <<result, failure>>
                   ELSE \E oc \in OverviewOutcomes("Full Concurrent") :
                          IF oc = "fails_before_call"
                          THEN /\ pc' = "returned"
                               /\ result' = "exception"
                               /\ failure' = "generate_content_based_overview"
                               /\ UNCHANGED documentation
                          ELSE /\ documentation' = Put(documentation, PROJECT_OVERVIEW,
                                                       OverviewText("Full Concurrent", oc))
                               /\ pc' = "join"
                               /\ UNCHANGED <<result, failure>>
       ELSE /\ pc' = "join"
            /\ UNCHANGED <<documentation, calls, result, failure, file_docs>>
    /\ UNCHANGED <<session_vars, executor, file_items, config, outcome, api_calls, client, unit, future, pool,
                   progress_queue, completed_files, progress_thread, progress_bar,
                   completed_count, batch, batch_results, batch_status, index>>

\* 189: join(timeout=1.0) returns when the thread has ended or when the
\* timeout has expired, whichever comes first.
ConcurrentJoin ==
    /\ pc = "join"
    /\ pc' = "final"
    /\ UNCHANGED <<session_vars, executor, file_docs, file_items, config, outcome, api_calls, failure, client, documentation, result, unit,
                   future, pool, calls, progress_queue, completed_files,
                   progress_thread, progress_bar, completed_count, batch,
                   batch_results, batch_status, index>>

\* 191-202
ConcurrentReturn ==
    /\ pc = "final"
    /\ progress_bar' = Append(progress_bar, Ratio(1, 1))
    /\ pc' = "returned"
    /\ result' = "mapping"
    /\ UNCHANGED <<session_vars, executor, file_docs, file_items, config, outcome, api_calls, failure, client, documentation, unit, future,
                   pool, calls, progress_queue, completed_files, progress_thread,
                   completed_count, batch, batch_results, batch_status, index>>

\* ---- progress thread, concurrent_docgen.py 115-142
\* 116: the test of the outer loop.
ProgressCheck ==
    /\ progress_thread = "check"
    /\ progress_thread' = IF Len(completed_files) < total_files THEN "drain" ELSE "done"
    /\ UNCHANGED <<session_vars, executor, file_docs, file_items, config, outcome, api_calls, failure, pc, client, documentation, result,
                   unit, future, pool, calls, progress_queue, completed_files,
                   progress_bar, completed_count, batch, batch_results, batch_status,
                   index>>

\* 119-135: one event is taken from the queue and displayed.
ProgressDrain ==
    /\ progress_thread = "drain"
    /\ progress_queue # <<>>
    /\ completed_files' = Append(completed_files, Head(progress_queue)[1])
    /\ progress_queue' = Tail(progress_queue)
    /\ progress_bar' = Append(progress_bar, Ratio(Len(completed_files) + 1, total_files))
    /\ UNCHANGED <<session_vars, executor, file_docs, file_items, config, outcome, api_calls, failure, pc, client, documentation, result,
                   unit, future, pool, calls, progress_thread, completed_count, batch,
                   batch_results, batch_status, index>>

\* 119 and 138: the queue is empty, the thread sleeps and tests again.
ProgressSleep ==
    /\ progress_thread = "drain"
    /\ progress_queue = <<>>
    /\ progress_thread' = "check"
    /\ UNCHANGED <<session_vars, executor, file_docs, file_items, config, outcome, api_calls, failure, pc, client, documentation, result,
                   unit, future, pool, calls, progress_queue, completed_files,
                   progress_bar, completed_count, batch, batch_results, batch_status,
                   index>>

Next ==
    \/ Main
    \/ InitializeClient
    \/ DirectoryViz
    \/ SeqOverview
    \/ SeqCall
    \/ SeqStore
    \/ SeqReturn
    \/ \E p \in Files : WorkerStart(p)
    \/ \E p \in Files : WorkerFinish(p)
    \/ BatchBegin
    \/ \E p \in Files : BatchCollect(p)
    \/ BatchEnd
    \/ BatchOverview
    \/ BatchReturn
    \/ StartProgressThread
    \/ ConcurrentSubmit
    \/ \E p \in Files : ConcurrentCollect(p)
    \/ ConcurrentPoolExit
    \/ ConcurrentOverview
    \/ ConcurrentJoin
    \/ ConcurrentReturn
    \/ ProgressCheck
    \/ ProgressDrain
    \/ ProgressSleep

Spec == Init /\ [][Next]_vars

\* The orchestrator thread, the threads of the pool and the progress thread
\* are each scheduled; every remote call ends.
Orchestrator ==
    \/ Main \/ InitializeClient \/ DirectoryViz
    \/ SeqOverview \/ SeqCall \/ SeqStore \/ SeqReturn
    \/ BatchBegin \/ (\E p \in Files : BatchCollect(p)) \/ BatchEnd
    \/ BatchOverview \/ BatchReturn
    \/ StartProgressThread \/ ConcurrentSubmit
    \/ (\E p \in Files : ConcurrentCollect(p)) \/ ConcurrentPoolExit
    \/ ConcurrentOverview \/ ConcurrentJoin \/ ConcurrentReturn
Workers == \E p \in Files : WorkerStart(p) \/ WorkerFinish(p)
ProgressThread == ProgressCheck \/ ProgressDrain \/ ProgressSleep

FairSpec ==
    /\ Spec
    /\ WF_vars(Orchestrator)
    /\ WF_vars(Workers)
    /\ WF_vars(ProgressThread)

\* A run in which at most one remote call never returns: client.messages.create
\* (api.py 207-212) is given no timeout, so the call of a worker may block
\* for ever.  The other calls return; a call that raises ends in the same
\* way for the scheduling (generate_documentation returns a text, api.py
\* 216-217) and is covered by Init.  Everything else starts as in Init.
HungOutcomes == {"returns", "hangs"}

HungInit ==
    /\ \E n \in 0..MaxFiles : file_items = SubSeq(AllPaths, 1, n)
    /\ config \in {c \in Configs : c.batch_size = c.max_workers}
    /\ outcome \in {o \in [Range(file_items) -> HungOutcomes] :
                      Cardinality({p \in Range(file_items) : o[p] = "hangs"}) <= 1}
    /\ api_calls = [p \in Range(file_items) |-> 0]
    /\ failure = "none"
    /\ pc = "main"
    /\ client = "none"
    /\ documentation = <<>>
    /\ result = "pending"
    /\ unit = [p \in Range(file_items) |-> "idle"]
    /\ future = [p \in Range(file_items) |-> Returned(<<>>)]
    /\ pool = 0
    /\ calls = {}
    /\ progress_queue = <<>>
    /\ completed_files = <<>>
    /\ progress_thread = "unstarted"
    /\ progress_bar = <<>>
    /\ completed_count = 0
    /\ batch = <<>>
    /\ batch_results = <<>>
    /\ batch_status = <<0, 0>>
    /\ index = 0
    /\ file_docs = <<>>
    /\ executor = "none"
    /\ SessionIdle

\* Every thread is scheduled; a call that hangs never ends.
HungSpec ==
    /\ HungInit
    /\ [][Next]_vars
    /\ WF_vars(Orchestrator)
    /\ WF_vars(Workers)
    /\ WF_vars(ProgressThread)

\* ------------------------------------------------- outside a generation run
\* No generation run is in progress: the state of a run that was given no
\* file and has not reached its generation step.
NoRun ==
    /\ file_items = <<>>
    /\ config = [concurrency_method |-> "Sequential", generate_overview |-> FALSE,
                 generate_dir_structure |-> FALSE, batch_size |-> MIN_BATCH_SIZE,
                 max_workers |-> MIN_FULL_CONCURRENCY_THREADS]
    /\ outcome = <<>>
    /\ api_calls = <<>>
    /\ failure = "none"
    /\ pc = "main"
    /\ client = "none"
    /\ documentation = <<>>
    /\ result = "pending"
    /\ unit = <<>>
    /\ future = <<>>
    /\ pool = 0
    /\ calls = {}
    /\ progress_queue = <<>>
    /\ completed_files = <<>>
    /\ progress_thread = "unstarted"
    /\ progress_bar = <<>>
    /\ completed_count = 0
    /\ batch = <<>>
    /\ batch_results = <<>>
    /\ batch_status = <<0, 0>>
    /\ index = 0
    /\ file_docs = <<>>
    /\ executor = "none"

\* ---- documentation history, documentation_history.py 25-112
not_history == <<docgen_vars, demo_vars, archive_vars, overview_vars>>

\* The documentation mappings a caller saves.
SavedDocs == {"docs_1", "docs_2"}

\* 40-45: the id is the second of the clock and a hash of the content.
content_hash(saved) == saved
DocId(saved, now) == <<now, content_hash(saved)>>

\* 58-69
Entry(saved, now) == [id |-> DocId(saved, now), timestamp |-> now, documentation |-> saved]

\* 75-78: only the first MAX_HISTORY entries are kept.
KeepRecent_OneMore(history) ==
    IF Len(history) > MAX_HISTORY + 1 THEN SubSeq(history, 1, MAX_HISTORY + 1) ELSE history

KeepRecent(history) ==
    IF Len(history) > MAX_HISTORY THEN SubSeq(history, 1, MAX_HISTORY) ELSE history

\* 25-80: the entry is inserted at index 0 and the list is cut.
add_documentation(saved) ==
    /\ documentation_history' =
          KeepRecent(<<Entry(saved, clock)>> \o documentation_history)
    /\ UNCHANGED <<not_history, clock>>

\* 97-107: every entry of that id is dropped.
remove_documentation(doc_id) ==
    /\ documentation_history' =
          SelectSeq(documentation_history, LAMBDA entry : entry.id # doc_id)
    /\ UNCHANGED <<not_history, clock>>

\* 109-112
clear_history ==
    /\ documentation_history' = <<>>
    /\ UNCHANGED <<not_history, clock>>

\* A second passes.
Tick ==
    /\ clock < MaxClock
    /\ clock' = clock + 1
    /\ UNCHANGED <<not_history, documentation_history>>

\* The ids a caller can name: those of the entries shown, or a stale one.
KnownIds ==
    {documentation_history[i].id : i \in 1..Len(documentation_history)}
        \cup {DocId("docs_1", 0)}

HistoryNext ==
    \/ \E saved \in SavedDocs : add_documentation(saved)
    \/ \E doc_id \in KnownIds : remove_documentation(doc_id)
    \/ clear_history
    \/ Tick

HistoryInit == NoRun /\ SessionIdle

HistorySpec == HistoryInit /\ [][HistoryNext]_vars

\* ---- demo mode, demo.py 43-232
not_demo == <<docgen_vars, history_vars, archive_vars, overview_vars>>

\* The requests of a caller: sizes in bytes, counts in files.
FileSizes == {1, 20 * MB, 20 * MB + 1}
FileCounts == {7, 20, 21}
TotalSizes == {1, 30 * MB, 60 * MB}

\* 136-162: (allowed, reason) of an upload; only allowed is modelled.
check_upload_limits(usage, file_size) ==
    IF usage.daily_archives > DEMO_CONFIG.daily_limits.max_archives
    THEN FALSE
    ELSE IF usage.session_archives > DEMO_CONFIG.session_limits.max_archives
         THEN FALSE
         ELSE ~(file_size > DEMO_CONFIG.daily_limits.max_file_size_mb * MB)

\* 164-201
check_processing_limits_IgnoresRequest(usage, file_count, total_size) ==
    IF usage.daily_files > DEMO_CONFIG.daily_limits.max_files
    THEN FALSE
    ELSE IF usage.session_files > DEMO_CONFIG.session_limits.max_files
         THEN FALSE
         ELSE ~(usage.daily_size > DEMO_CONFIG.daily_limits.max_total_size_mb * MB)

check_processing_limits(usage, file_count, total_size) ==
    IF usage.daily_files + file_count > DEMO_CONFIG.daily_limits.max_files
    THEN FALSE
    ELSE IF usage.session_files + file_count > DEMO_CONFIG.session_limits.max_files
         THEN FALSE
         ELSE ~(usage.daily_size + total_size
                   > DEMO_CONFIG.daily_limits.max_total_size_mb * MB)

\* 107-134
check_demo_limits_result(usage, operation, file_count, size) ==
    IF ~usage.is_demo_mode
    THEN TRUE
    ELSE IF operation = "upload"
         THEN check_upload_limits(usage, size)
         ELSE IF operation = "process"
              THEN check_processing_limits(usage, file_count, size)
              ELSE TRUE

\* 214-232
updated_usage(usage, operation, file_count, total_size) ==
    IF ~usage.is_demo_mode
    THEN usage
    ELSE IF operation = "upload"
         THEN [usage EXCEPT !.daily_archives = @ + 1, !.session_archives = @ + 1]
         ELSE IF operation = "process"
              THEN [usage EXCEPT !.daily_files = @ + file_count,
                                 !.session_files = @ + file_count,
                                 !.daily_size = @ + total_size,
                                 !.session_size = @ + total_size]
              ELSE usage

\* 81-83, called from get_api_key_ui_for_demo (305, 323): the demo trigger was
\* entered as the API key, which happens before the operations of a script
\* run, not between a check and the operation it allowed.
activate_demo_mode ==
    /\ ~demo_usage.is_demo_mode
    /\ ~demo_gate.allowed
    /\ demo_usage' = [demo_usage EXCEPT !.is_demo_mode = TRUE]
    /\ UNCHANGED <<not_demo, today, demo_gate>>

\* 71-73: midnight passes.
NextDay ==
    /\ today < MaxDays
    /\ today' = today + 1
    /\ UNCHANGED <<not_demo, demo_usage, demo_gate>>

\* 40-69: a DemoManager is constructed; the daily counters of another day
\* are reset.
init_demo_tracking ==
    /\ demo_usage.daily_key # today
    /\ demo_usage' = [demo_usage EXCEPT !.daily_key = today, !.daily_files = 0,
                                        !.daily_archives = 0, !.daily_size = 0]
    /\ UNCHANGED <<not_demo, today, demo_gate>>

\* 107-134: an operation asks whether it may run; it runs only when allowed.
check_demo_limits(operation, file_count, size) ==
    /\ ~demo_gate.allowed
    /\ demo_gate' = [operation |-> operation, file_count |-> file_count,
                     total_size |-> size,
                     allowed |-> check_demo_limits_result(demo_usage, operation,
                                                          file_count, size)]
    /\ UNCHANGED <<not_demo, today, demo_usage>>

\* 214-232: the allowed operation has run and is counted, with the count and
\* the size it was checked with.
update_usage ==
    /\ demo_gate.allowed
    /\ demo_usage' = updated_usage(demo_usage, demo_gate.operation,
                                   demo_gate.file_count, demo_gate.total_size)
    /\ demo_gate' = NoGate
    /\ UNCHANGED <<not_demo, today>>

DemoNext ==
    \/ activate_demo_mode
    \/ NextDay
    \/ init_demo_tracking
    \/ \E file_size \in FileSizes : check_demo_limits("upload", 0, file_size)
    \/ \E file_count \in FileCounts, total_size \in TotalSizes :
          check_demo_limits("process", file_count, total_size)
    \/ update_usage

DemoInit == NoRun /\ SessionIdle

DemoSpec == DemoInit /\ [][DemoNext]_vars

\* ---- archive extraction, archive.py 19-189
not_archive == <<docgen_vars, history_vars, demo_vars, overview_vars>>

\* constants.py 144-151
SUPPORTED_ARCHIVE_FORMATS == {".zip", ".7z"}
MAX_EXTRACT_SIZE == 300 * 1024 * 1024
MAX_FILES == 1000
MAX_UPLOAD_SIZE == 200 * 1024 * 1024

\* An uploaded archive: its extension, the size of the upload, what its
\* member list holds and whether the extractor or the reading of the
\* extracted files fails.
Uploads ==
    [extension : {".zip", ".7z", ".rar"},
     file_size : {1, MAX_UPLOAD_SIZE, MAX_UPLOAD_SIZE + 1},
     members : {1, MAX_FILES, MAX_FILES + 1},
     unsafe_path : BOOLEAN,
     extracted_size : {1, MAX_EXTRACT_SIZE, MAX_EXTRACT_SIZE + 1},
     extractor_fails : BOOLEAN,
     walk_fails : BOOLEAN]

\* 49-109: whether the member loop or the extractor raises inside the try.
ExtractionRaises(upload) ==
    \/ upload.members > MAX_FILES
    \/ upload.unsafe_path
    \/ upload.extracted_size > MAX_EXTRACT_SIZE
    \/ upload.extractor_fails

\* 160-168: an extension that is not supported raises before any directory
\* is made.
CheckFormat ==
    /\ archive_pc = "called"
    /\ archive_pc' = IF uploaded_file.extension \in SUPPORTED_ARCHIVE_FORMATS
                     THEN "mkdtemp"
                     ELSE "raised"
    /\ UNCHANGED <<not_archive, uploaded_file, temp_dir>>

\* 31-41: the directory is made and the upload is written into it.
MakeTempDir ==
    /\ archive_pc = "mkdtemp"
    /\ temp_dir' = "on_disk"
    /\ archive_pc' = "size_check"
    /\ UNCHANGED <<not_archive, uploaded_file>>

\* 42-47: the size of the upload is tested before the try block.
CheckUploadSize ==
    /\ archive_pc = "size_check"
    /\ archive_pc' = IF uploaded_file.file_size > MAX_UPLOAD_SIZE
                     THEN "raised"
                     ELSE "extract"
    /\ UNCHANGED <<not_archive, uploaded_file, temp_dir>>

\* 49-116: the members are tested and extracted; the except branch removes
\* the directory and raises again.
ExtractMembers ==
    /\ archive_pc = "extract"
    /\ IF ExtractionRaises(uploaded_file)
       THEN /\ temp_dir' = "removed"
            /\ archive_pc' = "raised"
       ELSE /\ archive_pc' = "walk"
            /\ UNCHANGED temp_dir
    /\ UNCHANGED <<not_archive, uploaded_file>>

\* 170-189: the extracted files are read; the finally branch removes the
\* directory whether the reading returns or raises.
WalkExtracted ==
    /\ archive_pc = "walk"
    /\ temp_dir' = "removed"
    /\ archive_pc' = IF uploaded_file.walk_fails THEN "raised" ELSE "returned"
    /\ UNCHANGED <<not_archive, uploaded_file>>

ArchiveNext ==
    \/ CheckFormat
    \/ MakeTempDir
    \/ CheckUploadSize
    \/ ExtractMembers
    \/ WalkExtracted

ArchiveInit ==
    /\ NoRun /\ HistoryIdle /\ DemoIdle /\ OverviewIdle
    /\ uploaded_file \in Uploads
    /\ archive_pc = "called"
    /\ temp_dir = "none"

ArchiveSpec == ArchiveInit /\ [][ArchiveNext]_vars

\* ---- strategy of the content-based overview, api.py 307-326
not_overview == <<docgen_vars, history_vars, demo_vars, archive_vars>>

\* Lengths of the documentation texts, in characters.
DocLengths == {0, 22498, 22499, 44999, 45000, 149999, 150000}

RECURSIVE SumOf(_)
SumOf(lengths) == IF lengths = <<>> THEN 0 ELSE Head(lengths) + SumOf(Tail(lengths))

\* 316: len("\n\n".join(file_docs.values()))
JoinedLength(lengths) ==
    IF lengths = <<>> THEN 0 ELSE SumOf(lengths) + 2 * (Len(lengths) - 1)

\* 317
estimated_tokens(lengths) == JoinedLength(lengths) \div 3

\* The first threshold is compared with <= instead of <.
SelectedStrategy_InclusiveThreshold(lengths, flag) ==
    IF lengths = <<>>
    THEN "no_file_docs"
    ELSE IF flag = "unset"
         THEN "AttributeError"
         ELSE IF flag = "off"
              THEN IF estimated_tokens(lengths) <= 15000
                   THEN "direct"
                   ELSE IF estimated_tokens(lengths) < 50000
                        THEN "summaries"
                        ELSE "hierarchical"
              ELSE "direct"

\* 312-326: the strategy the function takes; reading a key of the session
\* state that was never assigned raises AttributeError.
SelectedStrategy(lengths, flag) ==
    IF lengths = <<>>
    THEN "no_file_docs"
    ELSE IF flag = "unset"
         THEN "AttributeError"
         ELSE IF flag = "off"
              THEN IF estimated_tokens(lengths) < 15000
                   THEN "direct"
                   ELSE IF estimated_tokens(lengths) < 50000
                        THEN "summaries"
                        ELSE "hierarchical"
              ELSE "direct"

\* 290-326: one call of generate_content_based_overview.
SelectStrategy ==
    /\ overview_strategy = "none"
    /\ overview_strategy' = SelectedStrategy(file_doc_lengths, force_content_overview)
    /\ UNCHANGED <<not_overview, file_doc_lengths, force_content_overview>>

OverviewNext == SelectStrategy

\* The texts of up to MaxDocs files.  The checkbox of the sidebar (ui.py
\* 183-194, 222) goes into config only and nothing under src/ assigns the key
\* of the session state, so the key is unset unless the session holds it
\* from elsewhere, on or off.
OverviewInit ==
    /\ NoRun /\ HistoryIdle /\ DemoIdle /\ ArchiveIdle
    /\ \E n \in 0..MaxDocs : file_doc_lengths \in [1..n -> DocLengths]
    /\ force_content_overview \in {"unset", "on", "off"}
    /\ overview_strategy = "none"

OverviewSpec == OverviewInit /\ [][OverviewNext]_vars

\* ------------------------------------------------------------ properties
Method == config.concurrency_method
Position(p) == CHOOSE n \in 1..Len(file_items) : file_items[n] = p
Finished(p) == unit[p] \in {"finished", "collected"}
CallRaised(p) == outcome[p] = "raises"

ErrorPrefixes ==
    {"Error generating documentation: ", "Error: ", "Error processing "}
IsErrorText(t) == t # <<>> /\ t[1] \in ErrorPrefixes

\* text contains the tokens of msg, in order and adjacent
Embeds(text, msg) ==
    \E n \in 1..Len(text) :
        /\ n + Len(msg) - 1 <= Len(text)
        /\ SubSeq(text, n, n + Len(msg) - 1) = msg

ExpectedSentinels ==
    (IF config.generate_dir_structure /\ total_files > 1
     THEN {DIRECTORY_STRUCTURE, MERMAID_DIAGRAM} ELSE {})
    \cup (IF config.generate_overview /\ total_files > 1
          THEN {PROJECT_OVERVIEW} ELSE {})

\* C1: a run that returns a mapping returns one whose keys are exactly the
\* input file paths plus the sentinel keys of the enabled toggles (written
\* for more than one file), whichever executor ran.
Completeness ==
    result = "mapping" => DOMAIN documentation = Files \cup ExpectedSentinels

CompletenessWitness ==
    /\ result = "mapping"
    /\ Method = "Batch Processing"
    /\ total_files > config.batch_size
    /\ config.generate_overview /\ config.generate_dir_structure
    /\ \E p \in Files : CallRaised(p)

\* The entry an executor stores for a file as a function of that file's own
\* remote outcome only.
IsolatedEntry(p) ==
    CASE Method = "Sequential" ->
           generate_documentation(p, outcome[p]).value
      [] Method = "Batch Processing" ->
           BatchEntry(p, generate_file_documentation_worker(p, outcome[p])).text
      [] OTHER ->
           ConcurrentEntry(p, generate_file_documentation_worker(p, outcome[p])).text

\* C2: a remote call that raises aborts nothing: a run ends without a mapping
\* only before any unit is under way, a returned mapping holds for every file
\* the entry determined by that file's own outcome, api_calls, failure, and the entry of a file
\* whose call raised is a non-empty error text.
FailureIsolation ==
    /\ result \in {"None", "exception"} =>
          \A p \in Files : unit[p] \in {"idle", "collected"}
    /\ ~(result = "exception" /\ Method = "Sequential")
    /\ result = "mapping" =>
          \A p \in Files :
             /\ p \in DOMAIN documentation
             /\ documentation[p] = IsolatedEntry(p)
             /\ CallRaised(p) => IsErrorText(documentation[p])

FailureIsolationWitness ==
    /\ result = "mapping"
    /\ Method = "Sequential"
    /\ \E p, q \in Files : CallRaised(p) /\ ~CallRaised(q) /\ Position(p) < Position(q)

\* C3: the success flag of a unit says whether its remote call returned: in
\* the worker's tuple, in the progress event, in the results of the batch
\* and in the success count of the batch.
FailureFlag ==
    /\ \A p \in Files :
          (Method # "Sequential" /\ Finished(p)) =>
             future[p].value[3] = ~CallRaised(p)
    /\ \A n \in 1..Len(progress_queue) :
          progress_queue[n][2] = ~CallRaised(progress_queue[n][1])
    /\ \A n \in 1..Len(batch_results) :
          batch_results[n][2] = ~CallRaised(batch_results[n][1])
    /\ (pc = "batch_loop" /\ index > 0) =>
          batch_status[1] = Cardinality({p \in Range(batch) : ~CallRaised(p)})

\* C4: at most batch_size calls are in flight in the batch executor and at
\* most max_workers in the full-concurrent executor.
BackpressureBound ==
    /\ Method = "Batch Processing" => Cardinality(InFlight) <= config.batch_size
    /\ Method = "Full Concurrent" => Cardinality(InFlight) <= config.max_workers

BackpressureWitness ==
    /\ Method = "Full Concurrent"
    /\ Cardinality(InFlight) = config.max_workers
    /\ \E p \in Files : unit[p] = "queued"

\* C5: the batches are the contiguous groups of batch_size files in input
\* order, the last one possibly smaller, and no file of a later group has
\* started while a file of an earlier group has not finished.
Group(p) == (Position(p) - 1) \div config.batch_size

BatchBarrier ==
    Method = "Batch Processing" =>
       /\ pc = "batch_collect" =>
            /\ index % config.batch_size = 0
            /\ batch = SubSeq(file_items, index + 1, index + Len(batch))
            /\ Len(batch) >= 1
            /\ \/ Len(batch) = config.batch_size
               \/ Len(batch) < config.batch_size /\ index + Len(batch) = total_files
       /\ \A p, q \in Files :
            (Group(p) < Group(q) /\ unit[q] # "idle") => Finished(p)

BatchBarrierWitness ==
    /\ Method = "Batch Processing"
    /\ \E p, q \in Files :
         /\ Group(p) < Group(q)
         /\ CallRaised(p)
         /\ unit[q] = "running"

\* C6: the ratios written to the progress indicator never decrease, 1.0 is
\* written at most once and only when every unit has finished, and a run
\* that returns a mapping has written it.
Ones == {n \in 1..Len(progress_bar) : IsOne(progress_bar[n])}

ProgressMonotone ==
    Method # "Sequential" =>
       /\ \A n \in 1..(Len(progress_bar) - 1) :
             RatioLeq(progress_bar[n], progress_bar[n + 1])
       /\ Cardinality(Ones) <= 1
       /\ Ones # {} => \A p \in Files : Finished(p)
       /\ result = "mapping" => Ones # {}

\* C7: a progress thread that has been started eventually ends.
ProgressThreadTerminates ==
    (progress_thread \in {"check", "drain"}) ~> (progress_thread = "done")

\* C8: one completion event per file, consumed at most once; the counts never
\* decrease, never exceed total_files and equal total_files once every unit
\* has reported and its event has been consumed.
Produced == completed_files \o [n \in 1..Len(progress_queue) |-> progress_queue[n][1]]

CompletionCountState ==
    /\ Method = "Full Concurrent" =>
          /\ \A m, n \in 1..Len(Produced) : Produced[m] = Produced[n] => m = n
          /\ Range(Produced) = {p \in Files : unit[p] = "collected"}
          /\ Len(completed_files) <= total_files
          /\ progress_thread = "done" => Len(completed_files) = total_files
          /\ (progress_queue = <<>> /\ \A p \in Files : unit[p] = "collected")
                => Len(completed_files) = total_files
    /\ Method = "Batch Processing" =>
          /\ completed_count = Cardinality({p \in Files : unit[p] = "collected"})
          /\ completed_count <= total_files
          /\ result = "mapping" => completed_count = total_files

CompletionCount ==
    /\ []CompletionCountState
    /\ [][/\ completed_count' >= completed_count
          /\ Len(completed_files') >= Len(completed_files)
          /\ SubSeq(completed_files', 1, Len(completed_files)) = completed_files]_vars

CompletionCountWitness ==
    /\ Method = "Full Concurrent"
    /\ total_files >= 2
    /\ Len(completed_files) = total_files
    /\ completed_files # file_items
    /\ \E p \in Files : CallRaised(p)

\* C9: when the construction of the client raises, the run returns None and
\* nothing else has been started: no visualization, no unit, no overview, no
\* pool, no progress thread.
ClientFailureFatal ==
    client = "failed" =>
       /\ pc = "returned"
       /\ result = "None"
       /\ calls = {}
       /\ pool = 0
       /\ progress_thread = "unstarted"
       /\ DOMAIN documentation = {}
       /\ \A p \in Files : unit[p] = "idle"

ClientFailureWitness ==
    /\ client = "failed"
    /\ total_files >= 2
    /\ config.generate_overview /\ config.generate_dir_structure
    /\ Method = "Full Concurrent"

\* C10: a unit never raises: the value of a finished unit is a returned
\* result, and when its remote call raised the text of the result embeds the
\* message of the exception.
UnitText(p) ==
    IF Method = "Sequential" THEN future[p].value ELSE future[p].value[2]

UnitNeverRaises ==
    \A p \in Files :
       Finished(p) =>
          /\ ~future[p].raised
          /\ CallRaised(p) => Embeds(UnitText(p), ExceptionMessage(p))
          /\ ~CallRaised(p) => UnitText(p) = ResponseText(p)

UnitNeverRaisesWitness ==
    \E p, q \in Files :
       /\ Finished(p) /\ CallRaised(p)
       /\ Finished(q) /\ ~CallRaised(q)
       /\ Method = "Batch Processing"

\* C11: the mapping an executor returns is the one the sequential executor
\* returns for the same files, toggles and outcomes: the same text under
\* every file path and under the overview sentinel.
SequentialEntry(p) == generate_documentation(p, outcome[p]).value

StrategyEquivalence ==
    result = "mapping" =>
       /\ \A p \in Files : documentation[p] = SequentialEntry(p)
       /\ PROJECT_OVERVIEW \in DOMAIN documentation =>
             \E oc \in Outcomes :
                documentation[PROJECT_OVERVIEW] = OverviewText("Sequential", oc)

\* C12: the backend is called at most once for a file, and exactly once for
\* every file in a run that returned a mapping.
ExactlyOnce ==
    /\ \A p \in Files : api_calls[p] <= 1
    /\ result = "mapping" => \A p \in Files : api_calls[p] = 1

ExactlyOnceWitness ==
    /\ result = "mapping"
    /\ Method = "Batch Processing"
    /\ total_files > config.batch_size
    /\ \A p \in Files : CallRaised(p)

\* C13: with zero files a run makes no remote call, builds no pool, starts
\* no thread, writes no entry and returns the empty mapping.
EmptyInput ==
    (total_files = 0 /\ client # "failed") =>
       /\ calls = {}
       /\ pool = 0
       /\ progress_thread = "unstarted"
       /\ DOMAIN documentation = {}
       /\ pc = "returned" => result = "mapping"

\* C14: in a returned mapping the two structure sentinels are present iff
\* generate_dir_structure is on and there is more than one file, the overview
\* sentinel iff generate_overview is on and there is more than one file; two
\* files with both toggles give 5 entries, one file gives 1 entry.
SentinelGating ==
    result = "mapping" =>
       LET keys == DOMAIN documentation
           many == total_files > 1
       IN  /\ DIRECTORY_STRUCTURE \in keys <=> (config.generate_dir_structure /\ many)
           /\ MERMAID_DIAGRAM \in keys <=> (config.generate_dir_structure /\ many)
           /\ PROJECT_OVERVIEW \in keys <=> (config.generate_overview /\ many)
           /\ (config.generate_dir_structure /\ config.generate_overview) =>
                 /\ total_files = 2 => Cardinality(keys) = 5
                 /\ total_files = 1 => Cardinality(keys) = 1

SentinelGatingWitness ==
    /\ result = "mapping"
    /\ total_files = 2
    /\ Cardinality(DOMAIN documentation) = 5
    /\ Method = "Full Concurrent"

\* C16: once the overview collaborator has been invoked, the run returns the
\* mapping with the overview sentinel, every file entry and the structure
\* sentinels, whatever happened inside the collaborator.
OverviewInvoked ==
    calls \cap {"generate_project_overview", "generate_content_based_overview"} # {}

OverviewFailureAbsorbed ==
    (pc = "returned" /\ OverviewInvoked) =>
       /\ result = "mapping"
       /\ failure = "none"
       /\ PROJECT_OVERVIEW \in DOMAIN documentation
       /\ documentation[PROJECT_OVERVIEW] # <<>>
       /\ Files \subseteq DOMAIN documentation
       /\ config.generate_dir_structure =>
             {DIRECTORY_STRUCTURE, MERMAID_DIAGRAM} \subseteq DOMAIN documentation

\* C17: in the batch and full-concurrent executors the client is built once
\* and before any unit, the visualization precedes the units, the overview
\* follows them, and a run fails only when the client or the strategy raised.
PhaseOrderState ==
    Method # "Sequential" =>
       /\ (\E p \in Files : unit[p] # "idle") =>
             /\ client = "ready"
             /\ (config.generate_dir_structure /\ total_files > 1) =>
                   "build_directory_tree" \in calls
       /\ calls # {} => client = "ready"
       /\ "generate_content_based_overview" \in calls =>
             \A p \in Files : unit[p] = "collected"
       /\ result = "mapping" =>
             /\ \A p \in Files : unit[p] = "collected"
             /\ (config.generate_overview /\ total_files > 1) =>
                   "generate_content_based_overview" \in calls
       /\ result \in {"None", "exception"} =>
             failure \in {"initialize_client", "ThreadPoolExecutor"}

PhaseOrder ==
    /\ []PhaseOrderState
    /\ [][client # "none" => client' = client]_vars

\* C18: in the batch and full-concurrent executors the overview collaborator
\* is invoked only when every file has its entry, and from its invocation on
\* no file entry is written or changed.
OverviewAfterGeneration ==
    /\ []("generate_content_based_overview" \in calls =>
             \A p \in Files : unit[p] = "collected" /\ p \in DOMAIN documentation)
    /\ [][ "generate_content_based_overview" \in calls' =>
             \A p \in Files :
                /\ p \in DOMAIN documentation
                /\ documentation'[p] = documentation[p] ]_vars

OverviewAfterGenerationWitness ==
    /\ "generate_content_based_overview" \in calls
    /\ Method = "Full Concurrent"
    /\ total_files >= 3
    /\ result = "mapping"

\* C19: when the pool of the strategy raises, the run is over and the caller
\* gets no mapping: None from the full-concurrent executor, the exception
\* from the batch executor.
StrategyFailure ==
    failure = "ThreadPoolExecutor" =>
       /\ pc = "returned"
       /\ Method = "Full Concurrent" => result = "None"
       /\ Method = "Batch Processing" => result = "exception"

StrategyFailureWitness ==
    /\ failure = "ThreadPoolExecutor"
    /\ Method = "Batch Processing"
    /\ index > 0
    /\ \E p \in Files : p \in DOMAIN documentation

\* C15: hung call isolation.  Once the remote call of one unit is running
\* and never returns, the remote call of every other unit is eventually
\* started and completed, in the batch executor and in the full-concurrent
\* executor (whose concurrency parameter is at least 2).
Hung(p) == outcome[p] = "hangs"
HungRunning == \E h \in Files : Hung(h) /\ unit[h] = "running"
HungIsolation ==
    (Method \in {"Batch Processing", "Full Concurrent"} /\ HungRunning)
        ~> (\A p \in Files : ~Hung(p) => Finished(p))

\* C15 as the code has it: the full-concurrent executor submits every unit
\* to one pool, so every other call completes; the batch executor waits for
\* the whole batch of the hung unit (as_completed, 276), so the other calls
\* of that batch and of the batches before it complete, and no unit of a
\* later batch is ever started.
SameOrEarlierBatch(p) == \E h \in Files : Hung(h) /\ Group(p) <= Group(h)
HungIsolationPerBatch ==
    /\ (Method = "Full Concurrent" /\ HungRunning)
           ~> (\A p \in Files : ~Hung(p) => Finished(p))
    /\ (Method = "Batch Processing" /\ HungRunning)
           ~> (\A p \in Files : ~Hung(p) /\ SameOrEarlierBatch(p) => Finished(p))
    /\ [](Method = "Batch Processing" =>
             \A p \in Files : ~SameOrEarlierBatch(p) /\ (\E h \in Files : Hung(h))
                                 => unit[p] = "idle")

HungIsolationWitness ==
    /\ Method = "Batch Processing"
    /\ HungRunning
    /\ \E p \in Files : ~Hung(p) /\ SameOrEarlierBatch(p) /\ Finished(p)
    /\ \E p \in Files : ~SameOrEarlierBatch(p) /\ unit[p] = "idle"

\* C20: termination.  When every remote call returns or raises and every
\* thread is scheduled, every run returns to its caller, and at the return
\* no worker of a pool is queued or running.
WorkersDone == \A p \in Files : unit[p] \notin {"queued", "running"}
Termination ==
    /\ <>(pc = "returned")
    /\ [](pc = "returned" => WorkersDone)

TerminationWitness ==
    /\ pc = "returned"
    /\ result = "mapping"
    /\ Method \in {"Batch Processing", "Full Concurrent"}
    /\ Len(file_items) >= 3
    /\ \E p \in Files : CallRaised(p)
    /\ \A p \in Files : unit[p] = "collected"

\* C21: write-once mapping.  A key of the aggregate mapping, once written,
\* stays in the mapping with the value of that write; the entry of a file is
\* written by the one step that collects the result of that file, so no two
\* writes target the same key.
WrittenKeysKept ==
    \A k \in DOMAIN documentation :
        k \in DOMAIN documentation' /\ documentation'[k] = documentation[k]
WriteOnce ==
    /\ [][WrittenKeysKept]_vars
    /\ [](\A p \in Files : p \in DOMAIN documentation <=> unit[p] = "collected")

WriteOnceWitness ==
    /\ pc = "returned"
    /\ Method = "Batch Processing"
    /\ index >= 2 * config.batch_size
    /\ PROJECT_OVERVIEW \in DOMAIN documentation
    /\ DIRECTORY_STRUCTURE \in DOMAIN documentation
    /\ \A p \in Files : p \in DOMAIN documentation

\* C23: sequential order.  In the sequential executor the call of a unit
\* starts only after the results of all the units before it in the input
\* have been stored: at most one call is in flight and the file entries of
\* the mapping are always the first entries of the input, in input order.
StoredFiles == Files \cap DOMAIN documentation
SequentialOrder ==
    Method = "Sequential" =>
       /\ Cardinality(InFlight) <= 1
       /\ \A p \in Files :
             unit[p] = "running" =>
                \A q \in Files : Position(q) < Position(p) => q \in StoredFiles
       /\ \E n \in 0..total_files :
             StoredFiles = {file_items[i] : i \in 1..n}

SequentialOrderWitness ==
    /\ Method = "Sequential"
    /\ total_files >= 3
    /\ unit[file_items[3]] = "running"
    /\ StoredFiles = {file_items[1], file_items[2]}

\* C25: full-concurrent result storage.  In the full-concurrent executor,
\* once the result of a unit whose worker returned with success is
\* collected, the entry of that unit is the documentation text of the
\* worker's tuple and no progress event of that unit carries a failure.
WorkerSucceeded(p) == ~future[p].raised /\ future[p].value[3]
FullConcurrentStorage ==
    Method = "Full Concurrent" =>
       \A p \in Files :
          unit[p] = "collected" /\ WorkerSucceeded(p) =>
             /\ documentation[p] = future[p].value[2]
             /\ \A i \in 1..Len(progress_queue) : progress_queue[i] # <<p, FALSE>>

\* C24: strategy dispatch.  A run is handed to exactly one executor, the one
\* of its configured method: the batch executor for 'Batch Processing', the
\* full-concurrency executor for 'Full Concurrent', the sequential executor
\* otherwise; the run never leaves that executor for the steps of another.
SequentialPositions == {"pre_overview", "seq_loop", "seq_call"}
BatchPositions == {"batch_loop", "batch_collect", "batch_final"}
ConcurrentPositions == {"progress_setup", "pool", "collect", "post_overview", "join", "final"}
StrategyDispatchState ==
    /\ pc = "main" <=> executor = "none"
    /\ pc # "main" =>
          /\ executor \in Executors
          /\ StrategyOf(executor) = Method
    /\ pc \in SequentialPositions => Method = "Sequential"
    /\ pc \in BatchPositions => Method = "Batch Processing"
    /\ pc \in ConcurrentPositions \/ progress_thread # "unstarted"
          => Method = "Full Concurrent"
OverviewInputComplete ==
    "generate_content_based_overview" \in calls =>
        DOMAIN file_docs = Files \cap DOMAIN documentation

\* C29: history bound.  The history never holds more than MAX_HISTORY (10)
\* entries and is ordered most recent first; an addition to a full history
\* puts the new entry at index 0 and drops exactly the oldest entry.
MostRecentFirst ==
    \A i, j \in 1..Len(documentation_history) :
        i < j => documentation_history[i].timestamp >= documentation_history[j].timestamp
AdditionToFull ==
    /\ Len(documentation_history) = MAX_HISTORY
    /\ Len(documentation_history') = MAX_HISTORY
    /\ documentation_history' # documentation_history
HistoryBound ==
    /\ [](Len(documentation_history) <= MAX_HISTORY /\ MostRecentFirst)
    /\ [][AdditionToFull =>
            /\ documentation_history'[1].timestamp = clock
            /\ Tail(documentation_history')
                  = SubSeq(documentation_history, 1, MAX_HISTORY - 1)]_vars

HistoryBoundWitness ==
    /\ Len(documentation_history) = MAX_HISTORY
    /\ documentation_history[1].timestamp = MaxClock
    /\ documentation_history[MAX_HISTORY].timestamp = MaxClock
    /\ documentation_history[1].documentation # documentation_history[2].documentation

\* C27: demo archive quota.  In demo mode, with every upload gated by
\* check_demo_limits('upload') and counted by update_usage('upload'), no more
\* than max_archives (3) archives are accepted in a day or in a session.
ArchiveQuota ==
    /\ demo_usage.daily_archives <= DEMO_CONFIG.daily_limits.max_archives
    /\ demo_usage.session_archives <= DEMO_CONFIG.session_limits.max_archives

\* C30: demo file quota.  In demo mode, with every processing operation
\* gated by check_demo_limits('process') and counted by update_usage with
\* the same count and size, the files of a day and of a session stay within
\* 20 and the size of a day within 60 MB; a denied check changes no counter;
\* outside demo mode every check allows and no counter changes.
Counters(usage) ==
    <<usage.session_files, usage.session_archives, usage.session_size,
      usage.daily_files, usage.daily_archives, usage.daily_size>>
DeniedCheck == demo_gate' # demo_gate /\ demo_gate'.operation # "none" /\ ~demo_gate'.allowed
ExtractionEnded == archive_pc \in {"raised", "returned"}
TempDirCleanup == ExtractionEnded => temp_dir # "on_disk"

\* C22: overview strategy selection.  With the estimate floor(length of the
\* joined documentation / 3) and the override flag off, the direct strategy
\* is taken below 15000, the summary strategy from 15000 and below 50000,
\* the hierarchical strategy from 50000; with the flag on, the direct
\* strategy is taken for every size.
TotalLength == JoinedLength(file_doc_lengths)
====
